---- MODULE Spec2Model ----
(***************************************************************************)
(* The person record store of the axum service: one Vec<Person> behind a   *)
(* std::sync::RwLock (routes.rs, AppState.person_collection), the five     *)
(* handlers that read or mutate it, and the error mapping of errors.rs.    *)
(* Each worker task runs one handler at a time: it receives a request,     *)
(* acquires the lock (read() or write()), runs the handler body while the  *)
(* guard is alive, drops the guard on return, and the returned             *)
(* Result<_, HttpAppError> is turned into a response by into_response.     *)
(***************************************************************************)
EXTENDS Integers, Sequences, FiniteSets, TLC

\* ---------------------------------------------------------------- bounds
NumTasks == 2        \* concurrent worker tasks serving requests
MaxRequests == 3     \* requests received over a run
NumLockTasks == 3    \* worker tasks where the lock's waiting cases are studied

Tasks == 1..NumTasks
LockTasks == 1..NumLockTasks

\* ---------------------------------------------------------------- data
NoTask == 0
NoPerson == [id |-> 0, name |-> "", age |-> 0, date |-> ""]
NoResult == [ok |-> FALSE, status |-> 0, body |-> <<>>, err |-> "none", msg |-> ""]
NoResponse == [status |-> 0, body |-> <<>>]

\* person::create_person_collection(): the two sample records
create_person_collection ==
    << [id |-> 1, name |-> "Alice", age |-> 30, date |-> "2023-01-01"],
       [id |-> 2, name |-> "Bob",   age |-> 25, date |-> "2023-01-02"] >>

\* The set of records a sequence holds
Records(coll) == { coll[i] : i \in 1..Len(coll) }

SeedIds == { create_person_collection[i].id : i \in 1..Len(create_person_collection) }

\* The ids requests name: one the seed holds (behind another record) and one it
\* does not; the seed record with id 1 is never addressed
RequestIds == {2, 3}

Ids == SeedIds \cup RequestIds

\* The (name, age, date) values request bodies carry
Payloads ==
    { [name |-> "Cara",  age |-> 40, date |-> "2023-01-03"],
      [name |-> "Bobby", age |-> 26, date |-> "2023-01-09"] }

\* Person { id, name, age, date } as deserialized from a request body
InputPersons ==
    { [id |-> i, name |-> p.name, age |-> p.age, date |-> p.date] :
        i \in RequestIds, p \in Payloads }

\* The requests the router dispatches to the five store handlers
Requests ==
    { [op |-> "persons", id |-> 0, person |-> NoPerson] }
    \cup { [op |-> "single_person", id |-> i, person |-> NoPerson] : i \in RequestIds }
    \cup { [op |-> "add_person", id |-> 0, person |-> p] : p \in InputPersons }
    \cup { [op |-> "update_person", id |-> 0, person |-> p] : p \in InputPersons }
    \cup { [op |-> "delete_person", id |-> i, person |-> NoPerson] : i \in RequestIds }

\* One request of each handler: what the lock does depends on the handler only
LockRequests ==
    { [op |-> "persons", id |-> 0, person |-> NoPerson],
      [op |-> "single_person", id |-> 2, person |-> NoPerson],
      [op |-> "add_person", id |-> 0,
       person |-> [id |-> 3, name |-> "Cara", age |-> 40, date |-> "2023-01-03"]],
      [op |-> "update_person", id |-> 0,
       person |-> [id |-> 2, name |-> "Bobby", age |-> 26, date |-> "2023-01-09"]],
      [op |-> "delete_person", id |-> 3, person |-> NoPerson] }

NoRequest == [op |-> "none", id |-> 0, person |-> NoPerson]

ReadOps == {"persons", "single_person"}
WriteOps == {"add_person", "update_person", "delete_person"}

\* The id a request addresses (Path(id) or the id of the Json body)
TargetId(r) == IF r.person = NoPerson THEN r.id ELSE r.person.id

VARIABLES
    person_collection,  \* the Vec<Person> inside the RwLock
    poisoned,           \* the RwLock's poison flag
    writer,             \* the task holding the RwLockWriteGuard, or NoTask
    readers,            \* the tasks holding a RwLockReadGuard
    pc,                 \* per task: idle | lock | body | u_date | u_name
    req,                \* per task: the request being served, or the last one served
    ref,                \* per task: index of the element update_person found
    result,             \* per task: the Result<_, HttpAppError> its handler returned
    response,           \* per task: the response built from that result
    issued,             \* number of requests received so far
    abs,                \* history: per id, the record the last completed mutation left
    lastOp,             \* history: per id, the last completed mutation
    faulted             \* history: the guard modes held by tasks that panicked

vars == << person_collection, poisoned, writer, readers, pc, req, ref, result,
           response, issued, abs, lastOp, faulted >>

\* ---------------------------------------------------------------- errors.rs
\* From<PoisonError<RwLockReadGuard>>
ReadPoisonError == [ok |-> FALSE, status |-> 0, body |-> <<>>,
                    err |-> "LockError", msg |-> "Read Lock was poisoned"]

WritePoisonError_CopyPaste == [ok |-> FALSE, status |-> 0, body |-> <<>>,
                               err |-> "LockError", msg |-> "Read Lock was poisoned"]

\* From<PoisonError<RwLockWriteGuard>>
WritePoisonError == [ok |-> FALSE, status |-> 0, body |-> <<>>,
                     err |-> "LockError", msg |-> "Write Lock was poisoned"]

Err(kind) == [ok |-> FALSE, status |-> 0, body |-> <<>>, err |-> kind, msg |-> ""]
Ok(status, body) == [ok |-> TRUE, status |-> status, body |-> body, err |-> "none", msg |-> ""]

\* #[error(...)] Display of HttpAppError
ErrorText(r) ==
    CASE r.err = "Conflict" -> <<"An element with the same ID already exists">>
      [] r.err = "NotFound" -> <<"Not found">>
      [] r.err = "LockError" -> <<"Poison error ", r.msg>>

ErrorStatus_ConflictAsBadRequest(r) ==
    CASE r.err = "Conflict" -> 400
      [] r.err = "NotFound" -> 404
      [] r.err = "LockError" -> 500

\* IntoResponse for HttpAppError: the status of each error kind
ErrorStatus(r) ==
    CASE r.err = "Conflict" -> 409
      [] r.err = "NotFound" -> 404
      [] r.err = "LockError" -> 500

\* The response axum builds from a handler's return value
into_response(r) ==
    IF r.ok THEN [status |-> r.status, body |-> r.body]
    ELSE [status |-> ErrorStatus(r), body |-> ErrorText(r)]

\* ---------------------------------------------------------------- Vec helpers
\* iter().position(|t| t.id == id) / iter().find(..): first match, 0 if none
RECURSIVE PositionFrom(_, _, _)
PositionFrom(coll, id, i) ==
    IF i > Len(coll) THEN 0
    ELSE IF coll[i].id = id THEN i
    ELSE PositionFrom(coll, id, i + 1)

Position_Last(coll, id) ==
    IF PositionFrom(coll, id, 1) = 0 THEN 0
    ELSE CHOOSE i \in 1..Len(coll) :
           coll[i].id = id /\ \A j \in (i + 1)..Len(coll) : coll[j].id # id

Position_OrFirst(coll, id) ==
    IF PositionFrom(coll, id, 1) > 0 THEN PositionFrom(coll, id, 1)
    ELSE IF Len(coll) > 0 THEN 1 ELSE 0

Position(coll, id) == PositionFrom(coll, id, 1)

AnyWithId_FirstOnly(coll, id) == Len(coll) > 0 /\ coll[1].id = id

\* iter().any(|t| t.id == person.id)
AnyWithId(coll, id) == \E i \in 1..Len(coll) : coll[i].id = id

Push_Twice(coll, p) == Append(Append(coll, p), p)

\* Vec::push
Push(coll, p) == Append(coll, p)

Remove_Swap(coll, index) ==
    [j \in 1..(Len(coll) - 1) |-> IF j = index THEN coll[Len(coll)] ELSE coll[j]]

Remove_Last(coll, index) == SubSeq(coll, 1, Len(coll) - 1)

\* Vec::remove(index): shifts the tail left
Remove(coll, index) ==
    [j \in 1..(Len(coll) - 1) |-> IF j < index THEN coll[j] ELSE coll[j + 1]]

\* p.age = person.age on the element at index
SetAge(coll, index, person) == [coll EXCEPT ![index].age = person.age]

SetDate_All(coll, index, person) ==
    [j \in 1..Len(coll) |-> [coll[j] EXCEPT !.date = person.date]]

\* p.date = person.date on the element at index
SetDate(coll, index, person) == [coll EXCEPT ![index].date = person.date]

SetName_Skipped(coll, index, person) == coll

\* p.name = person.name on the element at index
SetName(coll, index, person) == [coll EXCEPT ![index].name = person.name]

\* ---------------------------------------------------------------- RwLock
CanRead_Always == TRUE

CanRead_Exclusive == writer = NoTask /\ readers = {}

\* read() can take the lock when no write guard is alive
CanRead == writer = NoTask

CanWrite_IgnoresReaders == writer = NoTask

\* write() can take the lock when no guard at all is alive
CanWrite == writer = NoTask /\ readers = {}

PoisonsOnPanic_Never(t) == FALSE

\* A guard dropped while its thread panics poisons the lock only if it is a
\* write guard (std::sync::RwLock)
PoisonsOnPanic(t) == writer = t

\* ---------------------------------------------------------------- state
InitRest(tasks) ==
    /\ poisoned = FALSE
    /\ writer = NoTask
    /\ readers = {}
    /\ pc = [t \in tasks |-> "idle"]
    /\ req = [t \in tasks |-> NoRequest]
    /\ ref = [t \in tasks |-> 0]
    /\ result = [t \in tasks |-> NoResult]
    /\ response = [t \in tasks |-> NoResponse]
    /\ issued = 0
    /\ abs = [i \in Ids |-> IF i \in SeedIds
                            THEN CHOOSE r \in Records(create_person_collection) : r.id = i
                            ELSE NoPerson]
    /\ lastOp = [i \in Ids |-> IF i \in SeedIds THEN "seed" ELSE "none"]
    /\ faulted = {}

\* The seed collection and the rest of the state
InitWith(tasks) ==
    /\ person_collection = create_person_collection
    /\ InitRest(tasks)

\* The state main builds before serving
Init == InitWith(Tasks)

\* The same state with the tasks of the lock study
InitLock == InitWith(LockTasks)

\* An idle task starts on request r
Dispatch(t, r) ==
    /\ pc[t] = "idle"
    /\ pc' = [pc EXCEPT ![t] = "lock"]
    /\ req' = [req EXCEPT ![t] = r]
    /\ result' = [result EXCEPT ![t] = NoResult]
    /\ response' = [response EXCEPT ![t] = NoResponse]
    /\ UNCHANGED << person_collection, poisoned, writer, readers, ref, abs, lastOp, faulted >>

\* The router hands a request to an idle task, while the run has requests left
Request(t, r) ==
    /\ issued < MaxRequests
    /\ issued' = issued + 1
    /\ Dispatch(t, r)

\* The router hands a request to an idle task, in a run that never ends
Arrive(t, r) ==
    /\ UNCHANGED issued
    /\ Dispatch(t, r)

Release_KeepsGuard(t) ==
    /\ writer' = writer
    /\ readers' = readers

\* Dropping the guard of task t
Release(t) ==
    /\ writer' = IF writer = t THEN NoTask ELSE writer
    /\ readers' = readers \ {t}

\* The handler of task t returns r: its guard is dropped and the return value
\* is turned into the response
Return(t, r) ==
    /\ result' = [result EXCEPT ![t] = r]
    /\ response' = [response EXCEPT ![t] = into_response(r)]
    /\ pc' = [pc EXCEPT ![t] = "idle"]
    /\ Release(t)

\* A task is blocked in write(): it asks for the write guard while guards are alive
WriterWaiting == \E t \in DOMAIN pc : pc[t] = "lock" /\ req[t].op \in WriteOps /\ ~CanWrite

\* read() returns: Err(PoisonError) converted by `?`, or the read guard
ReadLocked(t) ==
    /\ pc[t] = "lock"
    /\ req[t].op \in ReadOps
    /\ CanRead
    /\ IF poisoned
       THEN Return(t, ReadPoisonError)
       ELSE /\ pc' = [pc EXCEPT ![t] = "body"]
            /\ readers' = readers \cup {t}
            /\ UNCHANGED << writer, result, response >>
    /\ UNCHANGED << person_collection, poisoned, req, ref, issued, abs, lastOp, faulted >>

\* state.person_collection.read()? in persons and single_person, no writer
\* waiting: the lock admits the reader under every priority policy
AcquireRead(t) ==
    /\ ~WriterWaiting
    /\ ReadLocked(t)

\* The same read()? while a task is blocked in write(): std::sync::RwLock leaves
\* the priority policy to the platform, so the reader might or might not be
\* admitted ahead of the waiting writer
AcquireReadPast(t) ==
    /\ WriterWaiting
    /\ ReadLocked(t)

\* state.person_collection.write()? in add_person, update_person, delete_person
AcquireWrite(t) ==
    /\ pc[t] = "lock"
    /\ req[t].op \in WriteOps
    /\ CanWrite
    /\ IF poisoned
       THEN Return(t, WritePoisonError)
       ELSE /\ pc' = [pc EXCEPT ![t] = "body"]
            /\ writer' = t
            /\ UNCHANGED << readers, result, response >>
    /\ UNCHANGED << person_collection, poisoned, req, ref, issued, abs, lastOp, faulted >>

persons_Takes(t) ==
    /\ pc[t] = "body"
    /\ req[t].op = "persons"
    /\ Return(t, Ok(200, person_collection))
    /\ person_collection' = << >>
    /\ UNCHANGED << poisoned, req, ref, issued, abs, lastOp, faulted >>

\* persons: Ok(Json(persons.clone()))
persons(t) ==
    /\ pc[t] = "body"
    /\ req[t].op = "persons"
    /\ Return(t, Ok(200, person_collection))
    /\ UNCHANGED << person_collection, poisoned, req, ref, issued, abs, lastOp, faulted >>

SinglePersonResult_First(coll, id) ==
    IF Position(coll, id) > 0 THEN Ok(200, << coll[1] >>) ELSE Err("NotFound")

\* The value single_person returns for an id: a clone of the first match, or NotFound
SinglePersonResult(coll, id) ==
    IF Position(coll, id) > 0
    THEN Ok(200, << coll[Position(coll, id)] >>)
    ELSE Err("NotFound")

\* single_person
single_person(t) ==
    /\ pc[t] = "body"
    /\ req[t].op = "single_person"
    /\ Return(t, SinglePersonResult(person_collection, req[t].id))
    /\ UNCHANGED << person_collection, poisoned, req, ref, issued, abs, lastOp, faulted >>

add_person_PushFirst(t) ==
    /\ pc[t] = "body"
    /\ req[t].op = "add_person"
    /\ person_collection' = Push(person_collection, req[t].person)
    /\ IF ~AnyWithId(person_collection, req[t].person.id)
       THEN /\ Return(t, Ok(201, <<>>))
            /\ abs' = [abs EXCEPT ![req[t].person.id] = req[t].person]
            /\ lastOp' = [lastOp EXCEPT ![req[t].person.id] = "insert"]
       ELSE /\ Return(t, Err("Conflict"))
            /\ UNCHANGED << abs, lastOp >>
    /\ UNCHANGED << poisoned, req, ref, issued, faulted >>

\* add_person: push unless an element with the id exists
add_person(t) ==
    /\ pc[t] = "body"
    /\ req[t].op = "add_person"
    /\ IF ~AnyWithId(person_collection, req[t].person.id)
       THEN /\ person_collection' = Push(person_collection, req[t].person)
            /\ Return(t, Ok(201, <<>>))
            /\ abs' = [abs EXCEPT ![req[t].person.id] = req[t].person]
            /\ lastOp' = [lastOp EXCEPT ![req[t].person.id] = "insert"]
       ELSE /\ Return(t, Err("Conflict"))
            /\ UNCHANGED << person_collection, abs, lastOp >>
    /\ UNCHANGED << poisoned, req, ref, issued, faulted >>

\* update_person: iter_mut().find(..); on Some(p) the first assignment, p.age = person.age
update_person(t) ==
    /\ pc[t] = "body"
    /\ req[t].op = "update_person"
    /\ IF Position(person_collection, req[t].person.id) > 0
       THEN /\ ref' = [ref EXCEPT ![t] = Position(person_collection, req[t].person.id)]
            /\ person_collection' =
                 SetAge(person_collection, Position(person_collection, req[t].person.id),
                        req[t].person)
            /\ pc' = [pc EXCEPT ![t] = "u_date"]
            /\ UNCHANGED << result, response, writer, readers >>
       ELSE /\ Return(t, Err("NotFound"))
            /\ UNCHANGED << person_collection, ref >>
    /\ UNCHANGED << poisoned, req, issued, abs, lastOp, faulted >>

\* update_person: p.date = person.date
update_date(t) ==
    /\ pc[t] = "u_date"
    /\ person_collection' = SetDate(person_collection, ref[t], req[t].person)
    /\ pc' = [pc EXCEPT ![t] = "u_name"]
    /\ UNCHANGED << poisoned, writer, readers, req, ref, result, response, issued, abs, lastOp, faulted >>

\* update_person: p.name = person.name; Ok(StatusCode::NO_CONTENT)
update_name(t) ==
    /\ pc[t] = "u_name"
    /\ person_collection' = SetName(person_collection, ref[t], req[t].person)
    /\ Return(t, Ok(204, <<>>))
    /\ abs' = [abs EXCEPT ![req[t].person.id] =
                 [id |-> req[t].person.id, name |-> req[t].person.name,
                  age |-> req[t].person.age, date |-> req[t].person.date]]
    /\ lastOp' = [lastOp EXCEPT ![req[t].person.id] = "update"]
    /\ ref' = [ref EXCEPT ![t] = 0]
    /\ UNCHANGED << poisoned, req, issued, faulted >>

\* delete_person: position of the first element with the id, remove(index) or NotFound
delete_person(t) ==
    /\ pc[t] = "body"
    /\ req[t].op = "delete_person"
    /\ IF Position(person_collection, req[t].id) > 0
       THEN /\ person_collection' = Remove(person_collection, Position(person_collection, req[t].id))
            /\ Return(t, Ok(204, <<>>))
            /\ abs' = [abs EXCEPT ![req[t].id] = NoPerson]
            /\ lastOp' = [lastOp EXCEPT ![req[t].id] = "delete"]
       ELSE /\ Return(t, Err("NotFound"))
            /\ UNCHANGED << person_collection, abs, lastOp >>
    /\ UNCHANGED << poisoned, req, ref, issued, faulted >>

\* A task terminates abnormally while its guard is alive: the guard is dropped
\* during unwinding, the request gets no response, the runtime keeps serving
Panic(t) ==
    /\ pc[t] \in {"body", "u_date", "u_name"}
    /\ poisoned' = (poisoned \/ PoisonsOnPanic(t))
    /\ faulted' = faulted \cup {IF req[t].op \in WriteOps THEN "write" ELSE "read"}
    /\ Release(t)
    /\ pc' = [pc EXCEPT ![t] = "idle"]
    /\ req' = [req EXCEPT ![t] = NoRequest]
    /\ ref' = [ref EXCEPT ![t] = 0]
    /\ UNCHANGED << person_collection, result, response, issued, abs, lastOp >>

Next ==
    \E t \in Tasks :
        \/ \E r \in Requests : Request(t, r)
        \/ ReadLocked(t)
        \/ AcquireWrite(t)
        \/ persons(t)
        \/ single_person(t)
        \/ add_person(t)
        \/ update_person(t)
        \/ update_date(t)
        \/ update_name(t)
        \/ delete_person(t)
        \/ Panic(t)

Spec == Init /\ [][Next]_vars

\* The handler steps of task t, the same in every specification
Serve(t) ==
    \/ ReadLocked(t)
    \/ AcquireWrite(t)
    \/ persons(t)
    \/ single_person(t)
    \/ add_person(t)
    \/ update_person(t)
    \/ update_date(t)
    \/ update_name(t)
    \/ delete_person(t)

\* The lock study: three tasks, one request of each handler, a bounded run
NextLock ==
    \E t \in LockTasks :
        \/ \E r \in LockRequests : Request(t, r)
        \/ AcquireRead(t)
        \/ AcquireReadPast(t)
        \/ AcquireWrite(t)
        \/ persons(t)
        \/ single_person(t)
        \/ add_person(t)
        \/ update_person(t)
        \/ update_date(t)
        \/ update_name(t)
        \/ delete_person(t)
        \/ Panic(t)

SpecLock == InitLock /\ [][NextLock]_vars

\* A caller that sends its requests one after the other on one connection,
\* served by one task: Insert(r), then Get(r.id) once that Insert has returned 201
Caller == 1
SessionRecord == [id |-> 3, name |-> "Cara", age |-> 40, date |-> "2023-01-03"]
SessionInsert == [op |-> "add_person", id |-> 0, person |-> SessionRecord]
SessionGet == [op |-> "single_person", id |-> SessionRecord.id, person |-> NoPerson]

\* The caller's next request
SessionNext ==
    IF req[Caller] = SessionInsert /\ response[Caller].status = 201
    THEN SessionGet
    ELSE SessionInsert

\* The caller's session beside the independent requests of the other tasks
NextSession ==
    \/ Request(Caller, SessionNext)
    \/ \E t \in Tasks \ {Caller} : \E r \in Requests : Request(t, r)
    \/ \E t \in Tasks : Serve(t) \/ Panic(t)

SpecSession == Init /\ [][NextSession]_vars

\* The requests of the sequential scenario, in order
Scenario ==
    << [op |-> "single_person", id |-> 1, person |-> NoPerson],
       [op |-> "single_person", id |-> 99, person |-> NoPerson],
       [op |-> "add_person", id |-> 0,
        person |-> [id |-> 1, name |-> "Cara", age |-> 40, date |-> "2023-01-03"]],
       [op |-> "add_person", id |-> 0,
        person |-> [id |-> 3, name |-> "Cara", age |-> 40, date |-> "2023-01-03"]],
       [op |-> "persons", id |-> 0, person |-> NoPerson],
       [op |-> "update_person", id |-> 0,
        person |-> [id |-> 2, name |-> "Bobby", age |-> 26, date |-> "2023-01-09"]],
       [op |-> "single_person", id |-> 2, person |-> NoPerson],
       [op |-> "delete_person", id |-> 1, person |-> NoPerson],
       [op |-> "single_person", id |-> 1, person |-> NoPerson],
       [op |-> "persons", id |-> 0, person |-> NoPerson] >>

\* The next request of the scenario is sent once the previous one has returned;
\* any task may serve it
ScenarioRequest(t) ==
    /\ \A u \in Tasks : pc[u] = "idle"
    /\ issued < Len(Scenario)
    /\ issued' = issued + 1
    /\ Dispatch(t, Scenario[issued + 1])

\* The scenario: one request at a time, no abnormal end
NextScenario ==
    \E t \in Tasks :
        \/ ScenarioRequest(t)
        \/ ReadLocked(t)
        \/ AcquireWrite(t)
        \/ persons(t)
        \/ single_person(t)
        \/ add_person(t)
        \/ update_person(t)
        \/ update_date(t)
        \/ update_name(t)
        \/ delete_person(t)

SpecScenario == Init /\ [][NextScenario]_vars

\* A second record with the id of the seed's second record
Twin == [id |-> 2, name |-> "Bea", age |-> 31, date |-> "2023-01-05"]

\* Collections of three records that hold the seed's second record and its twin,
\* in every order and multiplicity
TwinSeeds ==
    { s \in [1..3 -> Records(create_person_collection) \cup {Twin}] :
        {create_person_collection[2], Twin} \subseteq Records(s) }

\* The requests that name the twins' id
TwinRequests ==
    { [op |-> "persons", id |-> 0, person |-> NoPerson],
      [op |-> "single_person", id |-> Twin.id, person |-> NoPerson],
      [op |-> "add_person", id |-> 0,
       person |-> [id |-> Twin.id, name |-> "Cara", age |-> 40, date |-> "2023-01-03"]],
      [op |-> "update_person", id |-> 0,
       person |-> [id |-> Twin.id, name |-> "Bobby", age |-> 26, date |-> "2023-01-09"]],
      [op |-> "delete_person", id |-> Twin.id, person |-> NoPerson] }

\* A collection seeded with two records of one id
InitTwin ==
    /\ person_collection \in TwinSeeds
    /\ InitRest(Tasks)

NextTwin ==
    \E t \in Tasks :
        \/ \E r \in TwinRequests : Request(t, r)
        \/ Serve(t)

SpecTwin == InitTwin /\ [][NextTwin]_vars

\* Requests that delete and insert at the front, the middle and the end of the
\* collection
OrderRequests ==
    { [op |-> "persons", id |-> 0, person |-> NoPerson],
      [op |-> "single_person", id |-> 1, person |-> NoPerson],
      [op |-> "add_person", id |-> 0,
       person |-> [id |-> 1, name |-> "Bobby", age |-> 26, date |-> "2023-01-09"]],
      [op |-> "add_person", id |-> 0,
       person |-> [id |-> 3, name |-> "Cara", age |-> 40, date |-> "2023-01-03"]],
      [op |-> "update_person", id |-> 0,
       person |-> [id |-> 2, name |-> "Bobby", age |-> 26, date |-> "2023-01-09"]],
      [op |-> "delete_person", id |-> 1, person |-> NoPerson],
      [op |-> "delete_person", id |-> 2, person |-> NoPerson] }

NextOrder ==
    \E t \in Tasks :
        \/ \E r \in OrderRequests : Request(t, r)
        \/ Serve(t)

SpecOrder == Init /\ [][NextOrder]_vars

\* A never-ending run: requests keep arriving; the runtime keeps running every
\* task that can take a step of its handler (a task blocked in read() or
\* write() can take none); abnormal ends may happen but need not
NextStream ==
    \E t \in Tasks :
        \/ \E r \in LockRequests : Arrive(t, r)
        \/ Serve(t)
        \/ Panic(t)

SpecStream ==
    /\ Init
    /\ [][NextStream]_vars
    /\ \A t \in Tasks : WF_vars(Serve(t))

TypeOK ==
    /\ poisoned \in BOOLEAN
    /\ writer \in DOMAIN pc \cup {NoTask}
    /\ readers \subseteq DOMAIN pc
    /\ issued \in Nat
    /\ \A t \in DOMAIN pc : pc[t] \in {"idle", "lock", "body", "u_date", "u_name"}

\* ---------------------------------------------------------------- properties
HasId(coll, id) == \E r \in Records(coll) : r.id = id

\* The guard of task t is alive
Holding(t) == pc[t] \in {"body", "u_date", "u_name"}

WriteHolders == { t \in DOMAIN pc : Holding(t) /\ req[t].op \in WriteOps }
ReadHolders == { t \in DOMAIN pc : Holding(t) /\ req[t].op \in ReadOps }

\* This step is a step of the handler body of task t (not its abnormal end)
BodyStep(t) == pc[t] = "body" /\ pc'[t] # "body" /\ req'[t] = req[t]

\* This step is the return of the handler of task t from its body
Returns(t, op) == BodyStep(t) /\ req[t].op = op /\ pc'[t] = "idle"

\* This step ends the lock acquisition of task t
Acquires(t) == pc[t] = "lock" /\ pc'[t] # "lock"

\* The records the completed mutations have left
Committed == { abs[i] : i \in Ids } \ { NoPerson }

\* The collection holds a record some update has written only in part
HalfApplied == \E r \in Records(person_collection) : r # abs[r.id]

\* C1: in every reachable state, under any interleaving of the five operations,
\* no two elements of the collection have the same id.
C1_Uniqueness ==
    \A i, j \in 1..Len(person_collection) :
        i # j => person_collection[i].id # person_collection[j].id

\* An insert of a present id was rejected and an insert of an absent id succeeded
C1_Witness ==
    /\ Len(person_collection) = 3
    /\ \E t \in Tasks : req[t].op = "add_person" /\ result[t].err = "Conflict"

\* C2: add_person for an id the collection holds when the write guard is held
\* returns Conflict (409) and leaves the collection exactly as it was.
C2_ConflictLeavesCollection ==
    [][\A t \in Tasks :
         (BodyStep(t) /\ req[t].op = "add_person"
            /\ HasId(person_collection, req[t].person.id))
         => /\ pc'[t] = "idle"
            /\ result'[t].err = "Conflict"
            /\ response'[t].status = 409
            /\ person_collection' = person_collection]_vars

\* An insert of a present id with a payload the collection does not hold has returned
C2_Witness ==
    \E t \in Tasks :
        /\ pc[t] = "idle"
        /\ req[t].op = "add_person"
        /\ result[t].err = "Conflict"
        /\ req[t].person \notin Records(person_collection)
        /\ HasId(person_collection, req[t].person.id)

\* C3: a single_person that reads an id whose last completed mutation is a
\* successful add_person(r) returns 200 with a record equal to r in all four fields.
C3_RoundTrip ==
    [][\A t \in Tasks :
         (Returns(t, "single_person") /\ lastOp[req[t].id] = "insert")
         => /\ result'[t].ok
            /\ result'[t].status = 200
            /\ result'[t].body = << abs[req[t].id] >>
            /\ response'[t] = [status |-> 200, body |-> << abs[req[t].id] >>]]_vars

\* A get has returned the record an insert stored behind the seed records
C3_Witness ==
    \E t \in Tasks :
        /\ pc[t] = "idle"
        /\ req[t].op = "single_person"
        /\ lastOp[req[t].id] = "insert"
        /\ result[t].ok
        /\ result[t].body = << abs[req[t].id] >>
        /\ Len(person_collection) = 3

\* C4: update_person that finds its id leaves that element with the request's
\* name, age and date, all three, under the same id; a single_person that reads
\* an id whose last completed mutation is that update returns exactly this record.
C4_UpdateOverwrite ==
    [][\A t \in Tasks :
         /\ (pc[t] = "u_name" /\ pc'[t] = "idle" /\ req'[t] = req[t])
            => /\ result'[t].ok /\ result'[t].status = 204
               /\ req[t].person \in Records(person_collection')
         /\ (Returns(t, "single_person") /\ lastOp[req[t].id] = "update")
            => /\ result'[t].ok
               /\ result'[t].body = << abs[req[t].id] >>]_vars

\* Insert, then update with another payload, then get of the same id, done
C4_Witness ==
    \E t \in Tasks :
        /\ pc[t] = "idle"
        /\ req[t].op = "single_person"
        /\ req[t].id \notin SeedIds
        /\ lastOp[req[t].id] = "update"
        /\ result[t].ok
        /\ result[t].body = << abs[req[t].id] >>

\* C5: a successful delete_person removes the element with the id and nothing
\* else, and a single_person that reads an id whose last completed mutation is
\* a delete returns NotFound.
C5_DeleteRemoves ==
    [][\A t \in Tasks :
         /\ (Returns(t, "delete_person") /\ result'[t].ok)
            => /\ ~HasId(person_collection', req[t].id)
               /\ Records(person_collection') =
                    { r \in Records(person_collection) : r.id # req[t].id }
               /\ Len(person_collection') = Len(person_collection) - 1
         /\ (Returns(t, "single_person") /\ lastOp[req[t].id] = "delete")
            => result'[t].err = "NotFound"]_vars

\* Insert, then delete, then get of the same id, done, the seed records still there
C5_Witness ==
    \E t \in Tasks :
        /\ pc[t] = "idle"
        /\ req[t].op = "single_person"
        /\ req[t].id \notin SeedIds
        /\ lastOp[req[t].id] = "delete"
        /\ result[t].err = "NotFound"
        /\ person_collection = create_person_collection

\* C6: single_person, update_person and delete_person for an id the collection
\* does not hold return NotFound (404) and leave the collection as it was.
C6_NotFound ==
    [][\A t \in Tasks :
         (BodyStep(t)
            /\ req[t].op \in {"single_person", "update_person", "delete_person"}
            /\ ~HasId(person_collection, TargetId(req[t])))
         => /\ pc'[t] = "idle"
            /\ result'[t].err = "NotFound"
            /\ response'[t].status = 404
            /\ person_collection' = person_collection]_vars

\* An update and a delete of absent ids have both returned NotFound
C6_Witness ==
    \E t, u \in Tasks :
        /\ pc[t] = "idle" /\ req[t].op = "update_person" /\ result[t].err = "NotFound"
        /\ pc[u] = "idle" /\ req[u].op = "delete_person" /\ result[u].err = "NotFound"

\* C7: at most one write guard is alive, and while one is alive no read guard is;
\* the lock's own state names exactly the tasks whose guards are alive.
C7_LockExclusion ==
    /\ Cardinality(WriteHolders) <= 1
    /\ WriteHolders # {} => ReadHolders = {}
    /\ WriteHolders = (IF writer = NoTask THEN {} ELSE {writer})
    /\ ReadHolders = readers

\* A writer holds the lock while another task waits for it
C7_Witness ==
    \E t, u \in Tasks :
        /\ t \in WriteHolders
        /\ pc[u] = "lock"

\* C8: every persons and single_person result equals the records the completed
\* mutations have left at the moment of the read; no result holds a record
\* written only in part by an update.
C8_Linearizable ==
    [][\A t \in Tasks :
         /\ Returns(t, "persons")
            => /\ result'[t].ok
               /\ Records(result'[t].body) = Committed
               /\ Len(result'[t].body) = Cardinality(Committed)
         /\ Returns(t, "single_person")
            => IF abs[req[t].id] # NoPerson
               THEN result'[t].ok /\ result'[t].body = << abs[req[t].id] >>
               ELSE result'[t].err = "NotFound"]_vars

\* An update has written two of its three fields while a reader waits for the lock
C8_Witness ==
    \E t, u \in Tasks :
        /\ pc[t] = "u_name"
        /\ HalfApplied
        /\ pc[u] = "lock"
        /\ req[u].op \in ReadOps

\* C9 as stated: once any guard holder has panicked, every acquisition that
\* completes returns LockError and the collection no longer changes.
C9_AnyHolderPoisons ==
    [][faulted # {}
         => /\ person_collection' = person_collection
            /\ \A t \in Tasks :
                 Acquires(t) => pc'[t] = "idle" /\ result'[t].err = "LockError"]_vars

\* C9 amended: once a write guard holder has panicked the lock is poisoned for
\* good, every acquisition that completes returns LockError (500) without a
\* guard, and the collection no longer changes.
C9_WriterPoisonFailFast ==
    [][("write" \in faulted)
         => /\ poisoned /\ poisoned'
            /\ person_collection' = person_collection
            /\ \A t \in Tasks :
                 Acquires(t) => /\ pc'[t] = "idle"
                                /\ result'[t].err = "LockError"
                                /\ response'[t].status = 500
                                /\ ~Holding(t)']_vars

\* A writer panicked between two field writes and a later request got LockError
C9_Witness ==
    /\ "write" \in faulted
    /\ HalfApplied
    /\ \E t \in Tasks : pc[t] = "idle" /\ result[t].err = "LockError"

\* C10: a LockError names the mode of the acquisition that met the poisoned
\* lock: read for persons and single_person, write for add_person,
\* update_person and delete_person.
C10_LockErrorMode ==
    \A t \in Tasks :
        result[t].err = "LockError"
        => /\ req[t].op \in ReadOps => result[t].msg = "Read Lock was poisoned"
           /\ req[t].op \in WriteOps => result[t].msg = "Write Lock was poisoned"
           /\ response[t].body = << "Poison error ", result[t].msg >>

\* A read request and a write request have both met the poisoned lock
C10_Witness ==
    \E t, u \in Tasks :
        /\ req[t].op \in ReadOps /\ result[t].msg = "Read Lock was poisoned"
        /\ req[u].op \in WriteOps /\ result[u].msg = "Write Lock was poisoned"

\* Task t has completed the request it keeps in req[t]
Completed(t) == pc[t] = "idle" /\ req[t] # NoRequest

\* The statuses the interface table allows for each operation
AllowedStatus(op) ==
    CASE op = "persons" -> {200, 500}
      [] op = "single_person" -> {200, 404, 500}
      [] op = "add_person" -> {201, 409, 500}
      [] op = "update_person" -> {204, 404, 500}
      [] op = "delete_person" -> {204, 404, 500}

\* C11: every completed request carries one status from its operation's row of
\* the table; Conflict is 409, NotFound is 404, LockError is 500, and only a
\* successful result carries a 2xx status.
C11_ClosedOutcomes ==
    \A t \in Tasks :
        Completed(t)
        => /\ response[t].status \in AllowedStatus(req[t].op)
           /\ result[t].err \in {"none", "Conflict", "NotFound", "LockError"}
           /\ result[t].err = "Conflict" <=> response[t].status = 409
           /\ result[t].err = "NotFound" <=> response[t].status = 404
           /\ result[t].err = "LockError" <=> response[t].status = 500
           /\ result[t].ok <=> response[t].status \in {200, 201, 204}
           /\ result[t].ok <=> result[t].err = "none"

\* One request has ended in 409 and another in 500
C11_Witness ==
    \E t, u \in Tasks :
        /\ Completed(t) /\ response[t].status = 409
        /\ Completed(u) /\ response[u].status = 500

\* The tasks that wait for the read guard, and those that wait for the write
\* guard while some guard is alive
WaitingReaders == { t \in DOMAIN pc : pc[t] = "lock" /\ req[t].op \in ReadOps }
BlockedWriters ==
    { t \in DOMAIN pc : pc[t] = "lock" /\ req[t].op \in WriteOps
                         /\ WriteHolders \cup ReadHolders # {} }

\* C12 as stated: whenever no writer holds the lock, the lock is bound to admit
\* a waiting persons or single_person, however many readers hold it.
C12_AdmittedWheneverNoWriterHolds ==
    \A t \in WaitingReaders :
        WriteHolders = {} => ENABLED AcquireRead(t)

\* C12 amended: whenever no writer holds the lock and none is blocked waiting
\* for it, the lock is bound to admit a waiting persons or single_person,
\* however many readers hold it: a reader never waits because of readers alone.
C12_ReadersShare ==
    \A t \in WaitingReaders :
        (WriteHolders = {} /\ BlockedWriters = {}) => ENABLED AcquireRead(t)

\* Two read guards are alive at once
C12_Witness ==
    /\ Cardinality(ReadHolders) >= 2
    /\ readers = ReadHolders

\* The guards alive are those of the tasks inside a handler body: a task that
\* has returned (with a success or an error) or has not yet acquired holds none
GuardsFollowScope ==
    \A t \in DOMAIN pc : (writer = t \/ t \in readers) => Holding(t)

\* While a request is in progress some task can take a step of its handler
NoDeadlock ==
    (\E t \in DOMAIN pc : pc[t] # "idle") => \E t \in DOMAIN pc : ENABLED Serve(t)

\* Every holder of a guard gives it up
HoldersRelease == \A t \in Tasks : Holding(t) ~> ~Holding(t)

\* This step admits a request of another task while task t waits for the lock
Overtaken(t) == pc[t] = "lock" /\ \E u \in DOMAIN pc \ {t} : Acquires(u)

\* C13: the lock is held only inside one operation and released when it
\* returns, no reachable state is a deadlock, and when every task that can run
\* keeps being run every request that waits for the lock eventually gets past
\* the acquisition and leaves its handler.
C13_EveryWaiterCompletes ==
    /\ []GuardsFollowScope
    /\ []NoDeadlock
    /\ \A t \in Tasks : (pc[t] = "lock") ~> (pc[t] = "idle")

\* C13 amended: the lock is held only inside one operation and released when
\* it returns, no reachable state is a deadlock, every holder releases, and a
\* request that waits for the lock eventually leaves its handler unless
\* requests of other tasks are admitted ahead of it again and again, forever.
C13_ProgressUnlessOvertaken ==
    /\ []GuardsFollowScope
    /\ []NoDeadlock
    /\ HoldersRelease
    /\ \A t \in Tasks :
          \/ (pc[t] = "lock") ~> (pc[t] = "idle")
          \/ []<><<Overtaken(t)>>_vars

\* A write request waits while another task holds the lock, after an earlier
\* request has already returned
C13_Witness ==
    \E t, u \in Tasks :
        /\ pc[t] = "lock" /\ req[t].op \in WriteOps
        /\ Holding(u)
        /\ \E i \in Ids : lastOp[i] \in {"insert", "update", "delete"}

\* C14: the Get(r.id) a caller sends after its own Insert(r) returned 201
\* answers by the mutations completed when it reads, those of other callers
\* ordered after the Insert included: it returns r exactly when no such
\* mutation has replaced or removed r, and NotFound or another record otherwise.
C14_NoSessionAtomicity ==
    [][Returns(Caller, "single_person") =>
         /\ (result'[Caller] = Ok(200, << SessionRecord >>)) <=> (abs[SessionRecord.id] = SessionRecord)
         /\ (result'[Caller] = Err("NotFound")) <=> (abs[SessionRecord.id] = NoPerson)
         /\ result'[Caller] \in {Err("NotFound"), Ok(200, << abs[SessionRecord.id] >>)}]_vars

\* The caller's Get after its own successful Insert has returned NotFound
C14_Witness ==
    /\ Completed(Caller)
    /\ req[Caller] = SessionGet
    /\ result[Caller] = Err("NotFound")
    /\ lastOp[SessionRecord.id] = "delete"

\* The caller's Get after its own successful Insert has returned another record
C14_WitnessOtherRecord ==
    /\ Completed(Caller)
    /\ req[Caller] = SessionGet
    /\ result[Caller].ok
    /\ result[Caller].body # << SessionRecord >>

\* This step ends the request of task t
Finishes(t) == pc[t] # "idle" /\ pc'[t] = "idle"

\* The ids of the records of a sequence
IdsOf(coll) == { r.id : r \in Records(coll) }

\* What the scenario states of its k-th request: the result res it returns and
\* the collection coll it leaves
ScenarioExpects(k, res, coll) ==
    CASE k = 1 -> res.ok /\ res.body =
                    << [id |-> 1, name |-> "Alice", age |-> 30, date |-> "2023-01-01"] >>
      [] k = 2 -> res.err = "NotFound"
      [] k = 3 -> res.err = "Conflict" /\ Len(coll) = 2
      [] k = 4 -> res.ok
      [] k = 5 -> res.ok /\ Len(res.body) = 3
      [] k = 6 -> res.ok
      [] k = 7 -> res.ok /\ Len(res.body) = 1 /\ res.body[1].name = "Bobby"
      [] k = 8 -> res.ok
      [] k = 9 -> res.err = "NotFound"
      [] k = 10 -> res.ok /\ Len(res.body) = 2 /\ IdsOf(res.body) = {2, 3}

\* C15: from the seed collection, the ten requests of the scenario sent one
\* after the other return what the scenario states: Get(1) Alice's record,
\* Get(99) NotFound, Insert of id 1 Conflict with 2 records left, Insert of Cara
\* success and List 3 records, Update of id 2 success and Get(2) named Bobby,
\* Delete(1) success, Get(1) NotFound and List exactly the ids 2 and 3.
C15_Scenario ==
    [][\A t \in Tasks :
         Finishes(t) => ScenarioExpects(issued, result'[t], person_collection')]_vars

\* The scenario has run to its end: the last List has returned the ids 2 and 3
C15_Witness ==
    /\ issued = Len(Scenario)
    /\ \E t \in Tasks :
          /\ Completed(t)
          /\ req[t].op = "persons"
          /\ IdsOf(result[t].body) = {2, 3}
          /\ IdsOf(person_collection) = {2, 3}

\* This step is a step of task t while it serves a persons or single_person
ReadStep(t) == pc[t] # "idle" /\ req[t].op \in ReadOps /\ pc'[t] # pc[t]

\* Task t keeps the result of a persons or single_person it has served
KeepsReadResult(t) == Completed(t) /\ req[t].op \in ReadOps /\ pc'[t] = "idle"

\* C16: persons returns every record of the collection as it is while its read
\* guard is alive; no step of persons or single_person changes the collection;
\* a result already returned is not changed by any later step of any task.
C16_ReadSnapshots ==
    [][\A t \in Tasks :
         /\ Returns(t, "persons") =>
                result'[t].ok /\ result'[t].body = person_collection
         /\ ReadStep(t) => person_collection' = person_collection
         /\ KeepsReadResult(t) =>
                result'[t] = result[t] /\ response'[t] = response[t]]_vars

\* A persons result a task still holds differs from the collection: a later
\* add_person, update_person or delete_person has changed the collection
C16_Witness ==
    \E t \in Tasks :
        /\ Completed(t)
        /\ req[t].op = "persons"
        /\ result[t].ok
        /\ response[t].body = result[t].body
        /\ result[t].body # person_collection

\* This step is one of the assignments of the update_person task t serves
UpdateStep(t) ==
    /\ req[t].op = "update_person"
    /\ Holding(t)
    /\ pc'[t] \in {"u_date", "u_name", "idle"}
    /\ pc'[t] # pc[t]
    /\ req'[t] = req[t]

\* C17: an update_person that returns success leaves the number of records,
\* the id at every position and every record with another id as they were,
\* at each of its assignments and over the whole operation; the record with the
\* request's id keeps its id and position and takes the request's name, age and date.
C17_UpdateFrame ==
    [][\A t \in Tasks :
         UpdateStep(t) =>
           /\ Len(person_collection') = Len(person_collection)
           /\ \A i \in 1..Len(person_collection) :
                 /\ person_collection'[i].id = person_collection[i].id
                 /\ person_collection[i].id # req[t].person.id =>
                       person_collection'[i] = person_collection[i]
           /\ result'[t].ok =>
                 /\ IdsOf(person_collection') = { r.id : r \in Committed }
                 /\ \A r \in Records(person_collection') :
                       IF r.id = req[t].person.id
                       THEN r = req[t].person
                       ELSE r = abs[r.id]]_vars

\* An update_person has returned success: the record it names holds the new
\* fields beside a seed record that is as it was
C17_Witness ==
    \E t \in Tasks :
        /\ Completed(t)
        /\ req[t].op = "update_person"
        /\ result[t].ok
        /\ lastOp[req[t].person.id] = "update"
        /\ req[t].person \in Records(person_collection)
        /\ req[t].person # create_person_collection[2]
        /\ create_person_collection[1] \in Records(person_collection)

\* The positions of the records with an id, and the first of them
Matches(coll, id) == { i \in 1..Len(coll) : coll[i].id = id }
FirstMatch(coll, id) ==
    CHOOSE i \in Matches(coll, id) : \A j \in Matches(coll, id) : i <= j

\* The collection without the record at position k
Without(coll, k) ==
    [j \in 1..(Len(coll) - 1) |-> IF j < k THEN coll[j] ELSE coll[j + 1]]

\* C18: while the collection holds several records with one id, single_person
\* returns the first of them in collection order, update_person writes the
\* first of them only, delete_person removes the first of them only, and
\* add_person with that id returns Conflict and changes nothing.
C18_FirstMatch ==
    [][\A t \in Tasks :
         Cardinality(Matches(person_collection, TargetId(req[t]))) >= 2 =>
           /\ Returns(t, "single_person") =>
                 result'[t] = Ok(200, << person_collection[FirstMatch(person_collection, req[t].id)] >>)
           /\ UpdateStep(t) =>
                 /\ \A i \in 1..Len(person_collection) :
                       i # FirstMatch(person_collection, req[t].person.id) =>
                         person_collection'[i] = person_collection[i]
                 /\ result'[t].ok =>
                       person_collection'[FirstMatch(person_collection, req[t].person.id)]
                         = req[t].person
           /\ Returns(t, "delete_person") =>
                 /\ result'[t] = Ok(204, << >>)
                 /\ person_collection' =
                       Without(person_collection, FirstMatch(person_collection, req[t].id))
           /\ Returns(t, "add_person") =>
                 /\ result'[t] = Err("Conflict")
                 /\ person_collection' = person_collection]_vars

\* Of the twins the first was deleted and the second is still there, behind a
\* seed record that was between them
C18_Witness ==
    \E t \in Tasks :
        /\ Completed(t)
        /\ req[t].op = "delete_person"
        /\ result[t].ok
        /\ person_collection = << create_person_collection[1], Twin >>

\* The position of the record with an id (ids are unique, C1)
At(coll, id) == CHOOSE i \in 1..Len(coll) : coll[i].id = id

\* Record r comes before record q wherever both were and both still are
KeepsOrder(old, new) ==
    \A r, q \in Records(old) \cap Records(new) :
        At(old, r.id) < At(old, q.id) => At(new, r.id) < At(new, q.id)

\* Seed records no request has changed come in seed order, before every
\* record that was inserted
SeedFirst ==
    \A r, q \in Records(person_collection) :
        /\ (lastOp[r.id] = "seed" /\ lastOp[q.id] = "insert") =>
              At(person_collection, r.id) < At(person_collection, q.id)
        /\ (lastOp[r.id] = "seed" /\ lastOp[q.id] = "seed"
              /\ At(create_person_collection, r.id) < At(create_person_collection, q.id)) =>
              At(person_collection, r.id) < At(person_collection, q.id)

\* C19: the collection is ordered by insertion: a successful add_person puts
\* the new record last behind the unchanged others, update_person keeps every
\* position, a successful delete_person keeps the relative order of all the
\* remaining records, and persons returns the records in that order: untouched
\* seed records first, in seed order, inserted records behind them.
C19_InsertionOrder ==
    [][\A t \in Tasks :
         /\ (Returns(t, "add_person") /\ result'[t].ok) =>
               /\ Len(person_collection') = Len(person_collection) + 1
               /\ SubSeq(person_collection', 1, Len(person_collection)) = person_collection
               /\ person_collection'[Len(person_collection')] = req[t].person
         /\ UpdateStep(t) =>
               \A i \in 1..Len(person_collection) :
                   person_collection'[i].id = person_collection[i].id
         /\ (Returns(t, "delete_person") /\ result'[t].ok) =>
               /\ Records(person_collection') =
                     { r \in Records(person_collection) : r.id # req[t].id }
               /\ Len(person_collection') = Len(person_collection) - 1
               /\ KeepsOrder(person_collection, person_collection')
         /\ Returns(t, "persons") => result'[t].body = person_collection
         /\ SeedFirst']_vars

\* The first seed record was deleted while a later insert was in the
\* collection: the second seed record still comes before the inserted one
C19_Witness ==
    /\ Len(person_collection) = 2
    /\ person_collection[1].id = 2
    /\ person_collection[2].id = 3
    /\ lastOp[1] = "delete"

\* This step returns 201 from an add_person, 204 from a delete_person
Inserted == \E t \in Tasks : Returns(t, "add_person") /\ response'[t].status = 201
Deleted == \E t \in Tasks : Returns(t, "delete_person") /\ response'[t].status = 204

\* This step is an assignment of an update_person that found its record
Assigned == \E t \in Tasks : UpdateStep(t) /\ result'[t].err = "none"

\* C20: the length of the collection grows by exactly 1 in the step that
\* returns 201 from add_person, shrinks by exactly 1 in the step that returns
\* 204 from delete_person, and is unchanged by every other step; the collection
\* itself changes only in those steps and in the assignments of an update_person
\* that found its record: never in persons or single_person, nor in a request
\* that ends in Conflict, NotFound or LockError.
C20_LengthChanges ==
    [][/\ Len(person_collection') =
            Len(person_collection) + (IF Inserted THEN 1 ELSE 0) - (IF Deleted THEN 1 ELSE 0)
       /\ person_collection' # person_collection => Inserted \/ Deleted \/ Assigned
       /\ \A t \in Tasks :
             (Finishes(t) /\ result'[t].err \in {"Conflict", "NotFound", "LockError"}) =>
               person_collection' = person_collection]_vars

\* An add_person has returned 201, a delete_person 204, and the collection is
\* back to the length of the seed
C20_Witness ==
    \E t, u \in Tasks :
        /\ Completed(t) /\ req[t].op = "add_person" /\ response[t].status = 201
        /\ Completed(u) /\ req[u].op = "delete_person" /\ response[u].status = 204
        /\ Len(person_collection) = Len(create_person_collection)

====
